---- MODULE Spec2Model ----
\* Verification model of the CADA-VAE training and embedding-generation
\* procedure, zeroshoteval/proc/zeroshotnet/cada_vae/cada_vae_train.py.
\*
\* Four specifications share the variables below:
\*   SpecFactors  loss_factors, called for epoch 0, 1, 2, ... of one warm-up spec
\*   SpecLoss     one call of compute_cada_losses on arbitrary dictionaries
\*   SpecTrain    train_VAE, statement by statement
\*   SpecGen      generate_synthetic_dataset, statement by statement
\*
\* Numbers are exact rationals [n, d]; tensors are sequences of rows, each row
\* one integer (feature and latent dimension 1).
EXTENDS Integers, Sequences, FiniteSets, TLC

VARIABLES
    \* ---- SpecFactors
    lf_warmup,      \* the warmup argument of loss_factors
    lf_calls,       \* number of calls made; the last one was for epoch lf_calls - 1
    lf_out,         \* what the last call returned or raised
    lf_prev,        \* what the call before it returned or raised
    \* ---- SpecLoss
    cl_in,          \* the arguments of compute_cada_losses
    cl_called,      \* whether the call has been made
    cl_out,         \* what the call returned or raised
    \* ---- SpecTrain: train_VAE
    cfg,            \* cfg.ZSL.EPOCH, cfg.CADA_VAE.{WARMUP, CROSS_RECONSTRUCTION, DISTRIBUTION_ALLIGNMENT}
    kwargs,         \* the keyword arguments of train_VAE: recon_loss_norm
    model,          \* the model: its modalities and the training flag of each encoder and decoder
    pc,             \* where train_VAE is
    error,          \* the exception that ended train_VAE, "" when none
    epoch,          \* the loop variable of line 50
    factors,        \* beta, cross_reconstruction_factor, distance_factor of line 57
    enum_next,      \* the index enumerate() gives the next batch of this epoch
    i_step,         \* the local _i_step: unbound until the first batch is yielded
    batch,          \* the locals of the loop body: x, the model's outputs, the three losses, loss
    accum,          \* loss_accum, loss_vae_accum, loss_ca_accum, loss_da_accum
    loss_history,   \* the list train_VAE returns
    opt_steps,      \* number of optimizer.step() calls
    grads,          \* the gradients the optimizer sees: "stale", "zero" or "fresh"
    epoch_log,      \* per epoch begun: batches yielded, sum of the losses given to backward()
    \* ---- SpecGen: generate_synthetic_dataset
    gen_cfg,        \* cfg.GENERALIZED, cfg.ZSL.BATCH_SIZE
    gen_data,       \* what GenEmbeddingDataset holds for each split
    gen_pc,         \* where generate_synthetic_dataset is
    gen_error,      \* the exception that ended it, "" when none
    gen_dataset,    \* the local `dataset`: "unbound" or the split it was built for
    gen_locals,     \* the embeddings and labels of the sources evaluated so far
    gen_result      \* the tensors of the returned dataset and the two index arrays

lfVars == <<lf_warmup, lf_calls, lf_out, lf_prev>>
clVars == <<cl_in, cl_called, cl_out>>
trVars == <<cfg, kwargs, model, pc, error, epoch, factors, enum_next, i_step, batch, accum,
            loss_history, opt_steps, grads, epoch_log>>
genVars == <<gen_cfg, gen_data, gen_pc, gen_error, gen_dataset, gen_locals, gen_result>>
vars == <<lfVars, clVars, trVars, genVars>>

\* ------------------------------------------------------------------ bounds

MaxStart == 2
MaxEnd == 3
MaxTarget == 1
MaxEpochLF == 3
MaxEpoch == 2
MaxBatches == 2
MaxRows == 2
MaxBatchSize == 2

\* ------------------------------------------------------------- arithmetic

Abs(i) == IF i < 0 THEN -i ELSE i

\* Euclid's algorithm.
GcdOf[a \in Nat, b \in Nat] == IF b = 0 THEN a ELSE GcdOf[b, a % b]
Gcd(a, b) == GcdOf[a, b]

\* The rational n/d (d # 0) in lowest terms with a positive denominator.
Rat(n, d) ==
    LET g == Gcd(Abs(n), Abs(d))
        s == IF d < 0 THEN -1 ELSE 1
    IN  [n |-> (s * n) \div g, d |-> (s * d) \div g]

R(i) == [n |-> i, d |-> 1]
RAdd(a, b) == Rat(a.n * b.d + b.n * a.d, a.d * b.d)
RSub(a, b) == Rat(a.n * b.d - b.n * a.d, a.d * b.d)
RMul(a, b) == Rat(a.n * b.n, a.d * b.d)
RLe(a, b) == a.n * b.d <= b.n * a.d
RLt(a, b) == a.n * b.d < b.n * a.d

\* A Python value or a raised exception.
Ok(v) == [ok |-> TRUE, v |-> v]
Raise(e) == [ok |-> FALSE, err |-> e]

\* Python's a / b on numbers.
PyDiv(a, b) == IF b.n = 0 THEN Raise("ZeroDivisionError") ELSE Ok(Rat(a.n * b.d, a.d * b.n))

\* ------------------------------------------------------------ loss_factors

\* cada_vae_train.py:339-347 with the ramp's fields: 1.0 * (e - START) / (END - START) * FACTOR
Interpolate(current_epoch, ramp) ==
    LET q == PyDiv(RMul(R(1), R(current_epoch - ramp.START_EPOCH)),
                   R(ramp.END_EPOCH - ramp.START_EPOCH))
    IN  IF q.ok THEN Ok(RMul(q.v, R(ramp.FACTOR))) ELSE q

\* Mutant: `>` where the code has `>=` in the elif.
beta_factor_gt(current_epoch, warmup) ==
    IF current_epoch < warmup.BETA.START_EPOCH THEN Ok(R(0))
    ELSE IF current_epoch > warmup.BETA.END_EPOCH THEN Ok(R(warmup.BETA.FACTOR))
    ELSE Interpolate(current_epoch, warmup.BETA)

\* cada_vae_train.py:320-331
beta_factor(current_epoch, warmup) ==
    IF current_epoch < warmup.BETA.START_EPOCH THEN Ok(R(0))
    ELSE IF current_epoch >= warmup.BETA.END_EPOCH THEN Ok(R(warmup.BETA.FACTOR))
    ELSE Interpolate(current_epoch, warmup.BETA)

\* Mutant: the block copied from the beta block with START_EPOCH left unchanged.
cross_reconstruction_factor_pasted(current_epoch, warmup) ==
    IF current_epoch < warmup.BETA.START_EPOCH THEN Ok(R(0))
    ELSE IF current_epoch >= warmup.CROSS_RECONSTRUCTION.END_EPOCH
         THEN Ok(R(warmup.CROSS_RECONSTRUCTION.FACTOR))
    ELSE Interpolate(current_epoch, warmup.CROSS_RECONSTRUCTION)

\* cada_vae_train.py:333-347
cross_reconstruction_factor(current_epoch, warmup) ==
    IF current_epoch < warmup.CROSS_RECONSTRUCTION.START_EPOCH THEN Ok(R(0))
    ELSE IF current_epoch >= warmup.CROSS_RECONSTRUCTION.END_EPOCH
         THEN Ok(R(warmup.CROSS_RECONSTRUCTION.FACTOR))
    ELSE Interpolate(current_epoch, warmup.CROSS_RECONSTRUCTION)

\* Mutant: the ramp runs backwards, (END - e) / (END - START) * FACTOR.
distance_factor_reversed(current_epoch, warmup) ==
    IF current_epoch < warmup.DISTANCE.START_EPOCH THEN Ok(R(0))
    ELSE IF current_epoch >= warmup.DISTANCE.END_EPOCH THEN Ok(R(warmup.DISTANCE.FACTOR))
    ELSE LET q == PyDiv(R(warmup.DISTANCE.END_EPOCH - current_epoch),
                        R(warmup.DISTANCE.END_EPOCH - warmup.DISTANCE.START_EPOCH))
         IN  IF q.ok THEN Ok(RMul(q.v, R(warmup.DISTANCE.FACTOR))) ELSE q

\* cada_vae_train.py:349-360
distance_factor(current_epoch, warmup) ==
    IF current_epoch < warmup.DISTANCE.START_EPOCH THEN Ok(R(0))
    ELSE IF current_epoch >= warmup.DISTANCE.END_EPOCH THEN Ok(R(warmup.DISTANCE.FACTOR))
    ELSE Interpolate(current_epoch, warmup.DISTANCE)

\* cada_vae_train.py:309-362: the three blocks run in this order; the first
\* exception raised ends the call.
loss_factors(current_epoch, warmup) ==
    LET b == beta_factor(current_epoch, warmup)
        c == cross_reconstruction_factor(current_epoch, warmup)
        d == distance_factor(current_epoch, warmup)
    IN  IF ~b.ok THEN b
        ELSE IF ~c.ok THEN c
        ELSE IF ~d.ok THEN d
        ELSE Ok([beta |-> b.v, cross_reconstruction_factor |-> c.v, distance_factor |-> d.v])

\* ----------------------------------------------------------------- tensors

\* A tensor is a sequence of rows of one integer each; a scalar the code holds
\* is a Python number or a 0-dim tensor (only the latter has .item()).
Tensor(v) == [tensor |-> TRUE, val |-> v]
Number(v) == [tensor |-> FALSE, val |-> v]
Plus(a, b) == [tensor |-> a.tensor \/ b.tensor, val |-> RAdd(a.val, b.val)]
Minus(a, b) == [tensor |-> a.tensor \/ b.tensor, val |-> RSub(a.val, b.val)]
Times(a, b) == [tensor |-> a.tensor \/ b.tensor, val |-> RMul(a.val, b.val)]

RECURSIVE SumInts(_)
SumInts(s) == IF s = <<>> THEN 0 ELSE Head(s) + SumInts(Tail(s))

RECURSIVE SumRats(_)
SumRats(s) == IF s = <<>> THEN R(0) ELSE RAdd(Head(s), SumRats(Tail(s)))

\* torch's .mean() over the rows.
Mean(s) == RMul(SumRats(s), Rat(1, Len(s)))

\* exp on the log-variances of the model: the tensors of the model are
\* log-variance 0 throughout, where exp is exactly 1.
Exp(r) == CASE r = R(0) -> R(1)

\* torch.sqrt on the squares the model's tensors produce.
Sqrt(r) == [n |-> CHOOSE k \in 0..r.n : k * k = r.n, d |-> CHOOSE k \in 1..r.d : k * k = r.d]

\* ------------------------------------------------------ reconstruction_loss

\* Mutant: an else branch that falls back to the l1 norm.
reconstruction_loss_default_l1(x, x_recon, recon_loss_norm) ==
    IF recon_loss_norm = "l2"
    THEN Ok(Tensor(Rat(SumInts([i \in 1..Len(x) |-> (x[i] - x_recon[i]) * (x[i] - x_recon[i])]),
                       Len(x))))
    ELSE Ok(Tensor(Rat(SumInts([i \in 1..Len(x) |-> Abs(x[i] - x_recon[i])]), Len(x))))

\* cada_vae_train.py:283-306. With neither norm the local loss_recon is never
\* assigned and the return statement raises UnboundLocalError.
reconstruction_loss(x, x_recon, recon_loss_norm) ==
    IF recon_loss_norm = "l1"
    THEN Ok(Tensor(Rat(SumInts([i \in 1..Len(x) |-> Abs(x[i] - x_recon[i])]), Len(x))))
    ELSE IF recon_loss_norm = "l2"
    THEN Ok(Tensor(Rat(SumInts([i \in 1..Len(x) |-> (x[i] - x_recon[i]) * (x[i] - x_recon[i])]),
                       Len(x))))
    ELSE Raise("UnboundLocalError: loss_recon")

\* ---------------------------------------------------------- compute_da_loss

\* cada_vae_train.py:225-247
compute_da_loss(z_mu_1, z_logvar_1, z_mu_2, z_logvar_2) ==
    LET loss_mu == [i \in 1..Len(z_mu_1) |-> R((z_mu_1[i] - z_mu_2[i]) * (z_mu_1[i] - z_mu_2[i]))]
        sd(lv, i) == Exp(Rat(lv[i], 2))
        loss_var == [i \in 1..Len(z_mu_1) |->
                        RMul(RSub(sd(z_logvar_1, i), sd(z_logvar_2, i)),
                             RSub(sd(z_logvar_1, i), sd(z_logvar_2, i)))]
    IN  Tensor(Mean([i \in 1..Len(z_mu_1) |-> Sqrt(RAdd(loss_mu[i], loss_var[i]))]))

\* ---------------------------------------------------------- compute_ca_loss

\* A decoder is a table from a latent row to a feature row, applied row by row.
Decode(decoder, z) == [i \in 1..Len(z) |-> decoder[z[i]]]

\* cada_vae_train.py:273-280 (lines 270-271, the two eval() calls, are the
\* state change the callers below apply to dec_training).
compute_ca_loss(decoder_1, decoder_2, x_1, x_2, z_sample_1, z_sample_2, recon_loss_norm) ==
    LET x_recon_1 == Decode(decoder_1, z_sample_2)
        x_recon_2 == Decode(decoder_2, z_sample_1)
        a == reconstruction_loss(x_1, x_recon_1, recon_loss_norm)
        b == reconstruction_loss(x_2, x_recon_2, recon_loss_norm)
    IN  IF ~a.ok THEN a
        ELSE IF ~b.ok THEN b
        ELSE Ok(Plus(a.v, b.v))

\* ------------------------------------------------------ compute_cada_losses

\* The modalities, in the order the model's dictionaries hold them.
ModalityOrder == <<"IMG", "CLS_ATTR">>
Modalities == {ModalityOrder[i] : i \in 1..Len(ModalityOrder)}

\* dict.keys() of a dictionary: its keys in insertion order.
RECURSIVE KeysFrom(_, _)
KeysFrom(d, i) ==
    IF i > Len(ModalityOrder) THEN <<>>
    ELSE IF ModalityOrder[i] \in DOMAIN d THEN <<ModalityOrder[i]>> \o KeysFrom(d, i + 1)
    ELSE KeysFrom(d, i + 1)
Keys(d) == KeysFrom(d, 1)

\* itertools.combinations(keys, 2), in its order.
RECURSIVE PairsWithHead(_, _)
PairsWithHead(h, rest) ==
    IF rest = <<>> THEN <<>> ELSE <<<<h, Head(rest)>>>> \o PairsWithHead(h, Tail(rest))
RECURSIVE Combinations2(_)
Combinations2(keys) ==
    IF keys = <<>> THEN <<>>
    ELSE PairsWithHead(Head(keys), Tail(keys)) \o Combinations2(Tail(keys))

\* The KL term of one modality, cada_vae_train.py:186-196.
kld_term(z_mu_m, z_logvar_m) ==
    Tensor(Mean([i \in 1..Len(z_mu_m) |->
        RMul(Rat(1, 2),
             RSub(RSub(RAdd(R(1), R(z_logvar_m[i])), R(z_mu_m[i] * z_mu_m[i])),
                  Exp(R(z_logvar_m[i]))))]))

\* cada_vae_train.py:181-196, the loop over z_mu.keys(): the state of the loop
\* is (loss_recon, loss_kld); a missing key raises KeyError where it is read.
RECURSIVE modality_loop(_, _, _, _, _, _, _)
modality_loop(keys, x, x_recon, z_mu, z_logvar, recon_loss_norm, acc) ==
    IF keys = <<>> THEN Ok(acc)
    ELSE LET modality == Head(keys)
         IN  IF modality \notin DOMAIN x THEN Raise("KeyError: x")
             ELSE IF modality \notin DOMAIN x_recon THEN Raise("KeyError: x_recon")
             ELSE LET r == reconstruction_loss(x[modality], x_recon[modality], recon_loss_norm)
                  IN  IF ~r.ok THEN r
                      ELSE IF modality \notin DOMAIN z_logvar THEN Raise("KeyError: z_logvar")
                      ELSE modality_loop(Tail(keys), x, x_recon, z_mu, z_logvar, recon_loss_norm,
                               [loss_recon |-> Plus(acc.loss_recon, r.v),
                                loss_kld |-> Plus(acc.loss_kld,
                                                  kld_term(z_mu[modality], z_logvar[modality]))])

\* cada_vae_train.py:202-220, the loop over the pairs: the state of the loop is
\* (loss_da, loss_ca) and the decoders compute_ca_loss has switched to eval.
RECURSIVE pair_loop(_, _, _, _, _, _, _, _)
pair_loop(pairs, decoder, x, z_mu, z_logvar, z_noize, recon_loss_norm, acc) ==
    IF pairs = <<>> THEN [ok |-> TRUE, v |-> acc, evalled |-> acc.evalled]
    ELSE LET modality_1 == Head(pairs)[1]
             modality_2 == Head(pairs)[2]
             da == compute_da_loss(z_mu[modality_1], z_logvar[modality_1],
                                   z_mu[modality_2], z_logvar[modality_2])
             fail(e, ev) == [ok |-> FALSE, err |-> e, evalled |-> ev]
         IN  IF modality_1 \notin DOMAIN decoder \/ modality_2 \notin DOMAIN decoder
             THEN fail("KeyError: decoder", acc.evalled)
             ELSE IF modality_1 \notin DOMAIN x \/ modality_2 \notin DOMAIN x
             THEN fail("KeyError: x", acc.evalled)
             ELSE IF modality_1 \notin DOMAIN z_noize \/ modality_2 \notin DOMAIN z_noize
             THEN fail("KeyError: z_noize", acc.evalled)
             ELSE LET ca == compute_ca_loss(decoder[modality_1], decoder[modality_2],
                                            x[modality_1], x[modality_2],
                                            z_noize[modality_1], z_noize[modality_2],
                                            recon_loss_norm)
                      ev == acc.evalled \cup {modality_1, modality_2}
                  IN  IF ~ca.ok THEN fail(ca.err, ev)
                      ELSE pair_loop(Tail(pairs), decoder, x, z_mu, z_logvar, z_noize,
                               recon_loss_norm,
                               [loss_da |-> Plus(acc.loss_da, da),
                                loss_ca |-> Plus(acc.loss_ca, ca.v),
                                evalled |-> ev])

\* cada_vae_train.py:147-222. Returns the three losses, or raises; `evalled`
\* are the decoders the call has switched to inference mode on the way.
compute_cada_losses(decoder, x, x_recon, z_mu, z_logvar, z_noize, beta, recon_loss_norm) ==
    LET first == modality_loop(Keys(z_mu), x, x_recon, z_mu, z_logvar, recon_loss_norm,
                     [loss_recon |-> Number(R(0)), loss_kld |-> Number(R(0))])
    IN  IF ~first.ok THEN [ok |-> FALSE, err |-> first.err, evalled |-> {}]
        ELSE LET loss_vae == Minus(first.v.loss_recon, Times(Number(beta), first.v.loss_kld))
                 second == pair_loop(Combinations2(Keys(z_mu)), decoder, x, z_mu, z_logvar,
                               z_noize, recon_loss_norm,
                               [loss_da |-> Number(R(0)), loss_ca |-> Number(R(0)),
                                evalled |-> {}])
             IN  IF ~second.ok THEN second
                 ELSE [ok |-> TRUE,
                       v |-> [loss_vae |-> loss_vae, loss_ca |-> second.v.loss_ca,
                              loss_da |-> second.v.loss_da],
                       evalled |-> second.evalled]

\* ------------------------------------------------------------- SpecFactors

Ramps == [START_EPOCH : 0..MaxStart, END_EPOCH : 0..MaxEnd, FACTOR : 0..MaxTarget]
WarmupSpecs == [BETA : Ramps, CROSS_RECONSTRUCTION : Ramps, DISTANCE : Ramps]

NotCalled == Raise("not called")

\* The variables of a specification that is not the one running.
IdleFactors == lf_warmup = <<>> /\ lf_calls = 0 /\ lf_out = NotCalled /\ lf_prev = NotCalled
IdleLoss == cl_in = <<>> /\ cl_called = FALSE /\ cl_out = NotCalled
IdleTrain ==
    /\ cfg = <<>> /\ kwargs = <<>> /\ model = <<>> /\ pc = "idle" /\ error = ""
    /\ epoch = 0 /\ factors = <<>> /\ enum_next = 0 /\ i_step = NotCalled /\ batch = <<>>
    /\ accum = <<>> /\ loss_history = <<>> /\ opt_steps = 0 /\ grads = "stale"
    /\ epoch_log = <<>>
IdleGen ==
    /\ gen_cfg = <<>> /\ gen_data = <<>> /\ gen_pc = "idle" /\ gen_error = ""
    /\ gen_dataset = "unbound" /\ gen_locals = <<>> /\ gen_result = <<>>

InitFactors ==
    /\ lf_warmup \in WarmupSpecs
    /\ lf_calls = 0
    /\ lf_out = NotCalled
    /\ lf_prev = NotCalled
    /\ IdleLoss /\ IdleTrain /\ IdleGen

\* The call of cada_vae_train.py:57-59 for the next epoch of the range.
CallLossFactors ==
    /\ lf_calls <= MaxEpochLF
    /\ lf_out' = loss_factors(lf_calls, lf_warmup)
    /\ lf_prev' = lf_out
    /\ lf_calls' = lf_calls + 1
    /\ UNCHANGED <<lf_warmup, clVars, trVars, genVars>>

NextFactors == CallLossFactors

SpecFactors == InitFactors /\ [][NextFactors]_vars

\* ---------------------------------------------------------------- SpecLoss

\* Sample batches of two rows, as the loader yields them (x of train_VAE).
XSamples ==
    { [m \in Modalities |-> IF m = "IMG" THEN <<2, 0>> ELSE <<1, 1>>],
      [m \in Modalities |-> <<1, 1>>] }

\* The model is one of two sample parameter settings. "identity": the
\* reconstruction, the mean and the sample equal the input, the decoders are
\* the identity. "shifted": the first row is reconstructed one too high, from a
\* sample that is not the mean, and the decoders differ per modality.
ModelSamples == {"identity", "shifted"}

\* What the model returns for a batch x, cada_vae_train.py:66: the
\* reconstructions, means, log-variances and samples of every modality.
ModelForward(w, x) ==
    IF w = "identity"
    THEN [x_recon |-> x, z_mu |-> x,
          z_logvar |-> [m \in DOMAIN x |-> <<0, 0>>], z_noize |-> x]
    ELSE [x_recon |-> [m \in DOMAIN x |-> <<x[m][1] + 1, x[m][2]>>],
          z_mu |-> [m \in DOMAIN x |-> IF m = "IMG" THEN <<2, 1>> ELSE <<0, 1>>],
          z_logvar |-> [m \in DOMAIN x |-> <<0, 0>>],
          z_noize |-> [m \in DOMAIN x |-> IF m = "IMG" THEN <<0, 1>> ELSE <<2, 2>>]]

LatentRows == 0..2

\* model.decoder, a table from latent row to feature row per modality.
ModelDecoder(w, mods) ==
    IF w = "identity"
    THEN [m \in mods |-> [z \in LatentRows |-> z]]
    ELSE [m \in mods |-> [z \in LatentRows |-> IF m = "IMG" THEN 1 ELSE z + 1]]

BetaSamples == {R(0), Rat(1, 2)}

\* The value of recon_loss_norm: the two norms the code knows and one it does not.
Norms == {"l1", "l2", "huber"}

Restrict(d, keys) == [m \in keys |-> d[m]]

InitLoss ==
    /\ \E x \in XSamples, w \in ModelSamples, wd \in ModelSamples, beta \in BetaSamples,
          norm \in Norms,
          kx \in SUBSET Modalities, kr \in SUBSET Modalities, km \in SUBSET Modalities,
          kl \in SUBSET Modalities, kz \in SUBSET Modalities :
          LET out == ModelForward(w, x)
          IN  cl_in = [decoder |-> ModelDecoder(wd, Modalities),
                       x |-> Restrict(x, kx),
                       x_recon |-> Restrict(out.x_recon, kr),
                       z_mu |-> Restrict(out.z_mu, km),
                       z_logvar |-> Restrict(out.z_logvar, kl),
                       z_noize |-> Restrict(out.z_noize, kz),
                       beta |-> beta,
                       recon_loss_norm |-> norm]
    /\ cl_called = FALSE
    /\ cl_out = NotCalled
    /\ IdleFactors /\ IdleTrain /\ IdleGen

\* One call of compute_cada_losses, cada_vae_train.py:147-222.
CallComputeCadaLosses ==
    /\ ~cl_called
    /\ cl_out' = compute_cada_losses(cl_in.decoder, cl_in.x, cl_in.x_recon, cl_in.z_mu,
                                     cl_in.z_logvar, cl_in.z_noize, cl_in.beta,
                                     cl_in.recon_loss_norm)
    /\ cl_called' = TRUE
    /\ UNCHANGED <<cl_in, lfVars, trVars, genVars>>

NextLoss == CallComputeCadaLosses

SpecLoss == InitLoss /\ [][NextLoss]_vars

\* ------------------------------------------ claims on compute_cada_losses

KeySets ==
    {DOMAIN cl_in.x, DOMAIN cl_in.x_recon, DOMAIN cl_in.z_mu, DOMAIN cl_in.z_logvar,
     DOMAIN cl_in.z_noize}

\* C5: a call of compute_cada_losses whose five per-modality dictionaries do
\* not all have the same key set ends in an error; it never returns losses.
C5_KeyMismatchIsFatal ==
    (cl_called /\ Cardinality(KeySets) > 1) => ~cl_out.ok

\* ------------------------------------------------- claims on loss_factors

\* The epoch of the last call.
LastEpoch == lf_calls - 1

\* The rule as the specification words it, for one ramp.
RampRule(e, start_epoch, end_epoch, target_factor) ==
    IF e < start_epoch THEN R(0)
    ELSE IF e >= end_epoch THEN R(target_factor)
    ELSE Rat(target_factor * (e - start_epoch), end_epoch - start_epoch)

RuleOf(e, ramp) == RampRule(e, ramp.START_EPOCH, ramp.END_EPOCH, ramp.FACTOR)

\* C2: for every epoch e >= 0 and every warm-up spec, loss_factors returns the
\* three factors, each computed from its own ramp by the piecewise rule: 0
\* before start_epoch, target_factor from end_epoch on, and
\* target_factor * (e - start_epoch) / (end_epoch - start_epoch) in between.
C2_FactorsFollowOwnRamp ==
    lf_calls >= 1 =>
        /\ lf_out.ok
        /\ lf_out.v.beta = RuleOf(LastEpoch, lf_warmup.BETA)
        /\ lf_out.v.cross_reconstruction_factor
               = RuleOf(LastEpoch, lf_warmup.CROSS_RECONSTRUCTION)
        /\ lf_out.v.distance_factor = RuleOf(LastEpoch, lf_warmup.DISTANCE)

\* One call in which the three factors sit in the three different pieces of
\* the rule: beta interpolates, the cross factor is still 0, the distance
\* factor has reached its target.
C2_Witness ==
    /\ lf_calls >= 1
    /\ lf_out.ok
    /\ RLt(R(0), lf_out.v.beta)
    /\ RLt(lf_out.v.beta, R(lf_warmup.BETA.FACTOR))
    /\ LastEpoch < lf_warmup.CROSS_RECONSTRUCTION.START_EPOCH
    /\ lf_warmup.CROSS_RECONSTRUCTION.FACTOR > 0
    /\ lf_out.v.cross_reconstruction_factor = R(0)
    /\ LastEpoch >= lf_warmup.DISTANCE.END_EPOCH
    /\ lf_warmup.DISTANCE.START_EPOCH < lf_warmup.DISTANCE.END_EPOCH
    /\ lf_out.v.distance_factor = R(lf_warmup.DISTANCE.FACTOR)
    /\ lf_warmup.DISTANCE.FACTOR > 0

Degenerate(ramp) == ramp.END_EPOCH <= ramp.START_EPOCH

HasDegenerateRamp ==
    \/ Degenerate(lf_warmup.BETA)
    \/ Degenerate(lf_warmup.CROSS_RECONSTRUCTION)
    \/ Degenerate(lf_warmup.DISTANCE)

\* C6 as stated: a warm-up spec with a ramp whose end_epoch <= start_epoch
\* makes loss_factors abort with an error at every epoch it is evaluated for.
C6_DegenerateRampAborts ==
    (lf_calls >= 1 /\ HasDegenerateRamp) => ~lf_out.ok

StepAtStart(e, ramp) == IF e < ramp.START_EPOCH THEN R(0) ELSE R(ramp.FACTOR)

\* C6 amended: loss_factors never raises; for a ramp with
\* end_epoch <= start_epoch it returns a step, 0 before start_epoch and
\* target_factor from start_epoch on, and the division is never evaluated.
C6_DegenerateRampIsStep ==
    lf_calls >= 1 =>
        /\ lf_out.ok
        /\ Degenerate(lf_warmup.BETA)
               => lf_out.v.beta = StepAtStart(LastEpoch, lf_warmup.BETA)
        /\ Degenerate(lf_warmup.CROSS_RECONSTRUCTION)
               => lf_out.v.cross_reconstruction_factor
                      = StepAtStart(LastEpoch, lf_warmup.CROSS_RECONSTRUCTION)
        /\ Degenerate(lf_warmup.DISTANCE)
               => lf_out.v.distance_factor = StepAtStart(LastEpoch, lf_warmup.DISTANCE)

\* The call at the epoch where a zero-length ramp starts and ends: the case in
\* which a division by end_epoch - start_epoch = 0 would be expected.
C6_Witness ==
    /\ lf_calls >= 1
    /\ lf_warmup.BETA.START_EPOCH = lf_warmup.BETA.END_EPOCH
    /\ LastEpoch = lf_warmup.BETA.START_EPOCH
    /\ lf_warmup.BETA.FACTOR > 0
    /\ lf_out.ok
    /\ lf_out.v.beta = R(lf_warmup.BETA.FACTOR)
    /\ lf_warmup.DISTANCE.END_EPOCH < lf_warmup.DISTANCE.START_EPOCH

InRange(f, ramp) == RLe(R(0), f) /\ RLe(f, R(ramp.FACTOR))

\* C8: every factor loss_factors returns lies in [0, target_factor] of its
\* ramp, and from one epoch to the next no factor decreases.
C8_FactorsBoundedMonotone ==
    /\ (lf_calls >= 1 /\ lf_out.ok) =>
           /\ InRange(lf_out.v.beta, lf_warmup.BETA)
           /\ InRange(lf_out.v.cross_reconstruction_factor, lf_warmup.CROSS_RECONSTRUCTION)
           /\ InRange(lf_out.v.distance_factor, lf_warmup.DISTANCE)
    /\ (lf_calls >= 2 /\ lf_prev.ok /\ lf_out.ok) =>
           /\ RLe(lf_prev.v.beta, lf_out.v.beta)
           /\ RLe(lf_prev.v.cross_reconstruction_factor, lf_out.v.cross_reconstruction_factor)
           /\ RLe(lf_prev.v.distance_factor, lf_out.v.distance_factor)

\* Two consecutive epochs strictly inside a ramp: the distance factor grows
\* and stays strictly between 0 and its target.
C8_Witness ==
    /\ lf_calls >= 2
    /\ lf_prev.ok /\ lf_out.ok
    /\ RLt(R(0), lf_prev.v.distance_factor)
    /\ RLt(lf_prev.v.distance_factor, lf_out.v.distance_factor)
    /\ RLt(lf_out.v.distance_factor, R(lf_warmup.DISTANCE.FACTOR))

\* --------------------------------------------------------------- train_VAE

Ramp(s, e, f) == [START_EPOCH |-> s, END_EPOCH |-> e, FACTOR |-> f]

\* cfg.CADA_VAE.WARMUP of the training runs: one spec whose ramps interpolate
\* over the first epochs, one whose ramps all have end_epoch <= start_epoch.
TrainWarmups ==
    { [BETA |-> Ramp(0, 2, 1), CROSS_RECONSTRUCTION |-> Ramp(0, 2, 1), DISTANCE |-> Ramp(0, 1, 1)],
      [BETA |-> Ramp(0, 0, 1), CROSS_RECONSTRUCTION |-> Ramp(1, 1, 1), DISTANCE |-> Ramp(1, 0, 1)] }

\* The modality sets a model is built with: none, the first, both.
ModalitySets == {{ModalityOrder[i] : i \in 1..n} : n \in 0..Len(ModalityOrder)}

Unbound == Raise("unbound")

\* The norms train_VAE is run with: one the code knows, one it does not (the
\* runs with "l2" differ from those with "l1" in the loss values only).
TrainNorms == {"l1", "huber"}

InitTrain ==
    /\ cfg \in [EPOCH : 0..MaxEpoch, WARMUP : TrainWarmups,
                CROSS_RECONSTRUCTION : BOOLEAN, DISTRIBUTION_ALLIGNMENT : BOOLEAN]
    /\ kwargs \in [recon_loss_norm : TrainNorms]
    /\ \E mods \in ModalitySets :
           model = [modalities |-> mods,
                    encoder_training |-> [m \in mods |-> TRUE],
                    decoder_training |-> [m \in mods |-> TRUE]]
    /\ pc = "start"
    /\ error = ""
    /\ epoch = 0
    /\ factors = <<>>
    /\ enum_next = 0
    /\ i_step = Unbound
    /\ batch = <<>>
    /\ accum = <<>>
    /\ loss_history = <<>>
    /\ opt_steps = 0
    /\ grads = "stale"
    /\ epoch_log = <<>>
    /\ IdleFactors /\ IdleLoss /\ IdleGen

\* tensor.item(): a Python number has no such method.
ItemOf(v) == IF v.tensor THEN Ok(v.val) ELSE Raise("AttributeError: item")

\* Mutant: the cross-alignment term is added whatever cfg.CADA_VAE.CROSS_RECONSTRUCTION says.
combined_loss_always_ca(c, losses, f) ==
    LET with_ca == Plus(losses.loss_vae,
                        Times(losses.loss_ca, Number(f.cross_reconstruction_factor)))
    IN  IF c.DISTRIBUTION_ALLIGNMENT /\ RLt(R(0), f.distance_factor)
        THEN Plus(with_ca, Times(losses.loss_da, Number(f.distance_factor)))
        ELSE with_ca

\* cada_vae_train.py:80, 85-88: loss starts as loss_vae and the two terms are
\* added to it in place.
combined_loss(c, losses, f) ==
    LET with_ca == IF c.CROSS_RECONSTRUCTION
                   THEN Plus(losses.loss_vae,
                             Times(losses.loss_ca, Number(f.cross_reconstruction_factor)))
                   ELSE losses.loss_vae
    IN  IF c.DISTRIBUTION_ALLIGNMENT /\ RLt(R(0), f.distance_factor)
        THEN Plus(with_ca, Times(losses.loss_da, Number(f.distance_factor)))
        ELSE with_ca

Fail(e) == pc' = "failed" /\ error' = e

\* cada_vae_train.py:41-48
TrainBegin ==
    /\ pc = "start"
    /\ loss_history' = <<>>
    /\ model' = [model EXCEPT !.encoder_training = [m \in model.modalities |-> TRUE],
                              !.decoder_training = [m \in model.modalities |-> TRUE]]
    /\ pc' = "epoch"
    /\ UNCHANGED <<cfg, kwargs, error, epoch, factors, enum_next, i_step, batch, accum,
                   opt_steps, grads, epoch_log, lfVars, clVars, genVars>>

\* Mutant: model.train() is called at the head of every epoch.
EpochBegin_model_train ==
    /\ pc = "epoch"
    /\ epoch < cfg.EPOCH
    /\ model' = [model EXCEPT !.encoder_training = [m \in model.modalities |-> TRUE],
                              !.decoder_training = [m \in model.modalities |-> TRUE]]
    /\ accum' = [loss_accum |-> R(0), loss_vae_accum |-> R(0),
                 loss_ca_accum |-> R(0), loss_da_accum |-> R(0)]
    /\ \E f \in {loss_factors(epoch, cfg.WARMUP)} :
           IF f.ok THEN /\ factors' = f.v
                        /\ pc' = "batch"
                        /\ error' = error
           ELSE /\ factors' = factors
                /\ Fail(f.err)
    /\ enum_next' = 0
    /\ epoch_log' = Append(epoch_log, [yielded |-> 0, backward_sum |-> R(0)])
    /\ UNCHANGED <<cfg, kwargs, epoch, i_step, batch, loss_history, opt_steps, grads,
                   lfVars, clVars, genVars>>

\* cada_vae_train.py:50-59: the next epoch of range(cfg.ZSL.EPOCH) begins.
EpochBegin ==
    /\ pc = "epoch"
    /\ epoch < cfg.EPOCH
    /\ accum' = [loss_accum |-> R(0), loss_vae_accum |-> R(0),
                 loss_ca_accum |-> R(0), loss_da_accum |-> R(0)]
    /\ \E f \in {loss_factors(epoch, cfg.WARMUP)} :
           IF f.ok THEN /\ factors' = f.v
                        /\ pc' = "batch"
                        /\ error' = error
           ELSE /\ factors' = factors
                /\ Fail(f.err)
    /\ enum_next' = 0
    /\ epoch_log' = Append(epoch_log, [yielded |-> 0, backward_sum |-> R(0)])
    /\ UNCHANGED <<cfg, kwargs, model, epoch, i_step, batch, loss_history, opt_steps, grads,
                   lfVars, clVars, genVars>>

\* cada_vae_train.py:50, 108: the range is exhausted and loss_history is returned.
TrainReturn ==
    /\ pc = "epoch"
    /\ epoch >= cfg.EPOCH
    /\ pc' = "done"
    /\ UNCHANGED <<cfg, kwargs, model, error, epoch, factors, enum_next, i_step, batch, accum,
                   loss_history, opt_steps, grads, epoch_log, lfVars, clVars, genVars>>

LogLast(f, v) == [epoch_log EXCEPT ![Len(epoch_log)][f] = v]

\* cada_vae_train.py:61-64: the loader yields a batch; its tensors are cast.
BatchYield ==
    /\ pc = "batch"
    /\ enum_next < MaxBatches
    /\ \E x \in XSamples : batch' = [x |-> Restrict(x, model.modalities)]
    /\ i_step' = Ok(enum_next)
    /\ enum_next' = enum_next + 1
    /\ epoch_log' = LogLast("yielded", epoch_log[Len(epoch_log)].yielded + 1)
    /\ pc' = "forward"
    /\ UNCHANGED <<cfg, kwargs, model, error, epoch, factors, accum, loss_history, opt_steps,
                   grads, lfVars, clVars, genVars>>

\* cada_vae_train.py:61: the loader is exhausted for this epoch.
BatchesExhausted ==
    /\ pc = "batch"
    /\ pc' = "epoch_end"
    /\ UNCHANGED <<cfg, kwargs, model, error, epoch, factors, enum_next, i_step, batch, accum,
                   loss_history, opt_steps, grads, epoch_log, lfVars, clVars, genVars>>

\* cada_vae_train.py:66: the forward pass, with the parameters as they are now
\* (any sample setting: the optimizer has changed them since the last batch).
Forward ==
    /\ pc = "forward"
    /\ \E w \in ModelSamples :
           LET out == ModelForward(w, batch.x)
           IN  batch' = [x |-> batch.x, x_recon |-> out.x_recon, z_mu |-> out.z_mu,
                         z_logvar |-> out.z_logvar, z_noize |-> out.z_noize,
                         decoder |-> ModelDecoder(w, model.modalities)]
    /\ pc' = "losses"
    /\ UNCHANGED <<cfg, kwargs, model, error, epoch, factors, enum_next, i_step, accum,
                   loss_history, opt_steps, grads, epoch_log, lfVars, clVars, genVars>>

\* cada_vae_train.py:66: the forward pass raises; nothing catches it.
ForwardFails ==
    /\ pc = "forward"
    /\ Fail("forward")
    /\ UNCHANGED <<cfg, kwargs, model, epoch, factors, enum_next, i_step, batch, accum,
                   loss_history, opt_steps, grads, epoch_log, lfVars, clVars, genVars>>

\* cada_vae_train.py:68-88: the three losses, the three accumulators, the
\* combined loss. compute_ca_loss leaves the decoders it used in eval mode.
\* Line 80 binds loss to the tensor loss_vae names and lines 86 and 88 add to
\* it in place, so afterwards the local loss_vae holds the combined loss too;
\* line 81 has read the VAE loss before that.
ComputeLosses ==
    /\ pc = "losses"
    /\ \E r \in {compute_cada_losses(batch.decoder, batch.x, batch.x_recon, batch.z_mu,
                                    batch.z_logvar, batch.z_noize, factors.beta,
                                    kwargs.recon_loss_norm)} :
       LET stay == /\ accum' = accum /\ batch' = batch
       IN  /\ model' = [model EXCEPT !.decoder_training =
                           [m \in model.modalities |->
                               IF m \in r.evalled THEN FALSE ELSE model.decoder_training[m]]]
           /\ IF ~r.ok THEN Fail(r.err) /\ stay
              ELSE LET vae == ItemOf(r.v.loss_vae)
                       ca == ItemOf(r.v.loss_ca)
                       da == ItemOf(r.v.loss_da)
                   IN  IF ~vae.ok THEN Fail(vae.err) /\ stay
                       ELSE IF ~ca.ok
                       THEN /\ Fail(ca.err)
                            /\ batch' = batch
                            /\ accum' = [accum EXCEPT !.loss_vae_accum = RAdd(@, vae.v)]
                       ELSE IF ~da.ok
                       THEN /\ Fail(da.err)
                            /\ batch' = batch
                            /\ accum' = [accum EXCEPT
                                   !.loss_vae_accum = RAdd(@, vae.v),
                                   !.loss_ca_accum =
                                       RAdd(@, RMul(ca.v, factors.cross_reconstruction_factor))]
                       ELSE /\ accum' = [accum EXCEPT
                                   !.loss_vae_accum = RAdd(@, vae.v),
                                   !.loss_ca_accum =
                                       RAdd(@, RMul(ca.v, factors.cross_reconstruction_factor)),
                                   !.loss_da_accum =
                                       RAdd(@, RMul(da.v, factors.distance_factor))]
                            /\ \E loss \in {combined_loss(cfg, r.v, factors)} :
                                   batch' = [x |-> batch.x, x_recon |-> batch.x_recon,
                                             z_mu |-> batch.z_mu, z_logvar |-> batch.z_logvar,
                                             z_noize |-> batch.z_noize,
                                             decoder |-> batch.decoder,
                                             losses |-> [r.v EXCEPT !.loss_vae = loss],
                                             loss |-> loss]
                            /\ pc' = "zero_grad"
                            /\ error' = error
    /\ UNCHANGED <<cfg, kwargs, epoch, factors, enum_next, i_step, loss_history, opt_steps,
                   grads, epoch_log, lfVars, clVars, genVars>>

\* cada_vae_train.py:90
ZeroGrad ==
    /\ pc = "zero_grad"
    /\ grads' = "zero"
    /\ pc' = "backward"
    /\ UNCHANGED <<cfg, kwargs, model, error, epoch, factors, enum_next, i_step, batch, accum,
                   loss_history, opt_steps, epoch_log, lfVars, clVars, genVars>>

\* cada_vae_train.py:91: loss.backward(); the log keeps what was backpropagated.
Backward ==
    /\ pc = "backward"
    /\ grads' = "fresh"
    /\ batch' = [f \in DOMAIN batch \cup {"backpropagated"} |->
                     IF f = "backpropagated" THEN batch.loss.val ELSE batch[f]]
    /\ epoch_log' = LogLast("backward_sum",
                            RAdd(epoch_log[Len(epoch_log)].backward_sum, batch.loss.val))
    /\ pc' = "step"
    /\ UNCHANGED <<cfg, kwargs, model, error, epoch, factors, enum_next, i_step, accum,
                   loss_history, opt_steps, lfVars, clVars, genVars>>

\* Mutant: the exception of backward() is swallowed and the loop goes on to
\* the next batch.
BackwardFails_swallowed ==
    /\ pc = "backward"
    /\ pc' = "batch"
    /\ UNCHANGED <<cfg, kwargs, model, error, epoch, factors, enum_next, i_step, batch, accum,
                   loss_history, opt_steps, grads, epoch_log, lfVars, clVars, genVars>>

\* cada_vae_train.py:91: the backward pass raises; nothing catches it.
BackwardFails ==
    /\ pc = "backward"
    /\ Fail("backward")
    /\ UNCHANGED <<cfg, kwargs, model, epoch, factors, enum_next, i_step, batch, accum,
                   loss_history, opt_steps, grads, epoch_log, lfVars, clVars, genVars>>

\* cada_vae_train.py:92-94: the optimizer step, then loss_accum += loss.item().
\* The locals of the loop body are dead from here to the next batch.
OptimizerStep ==
    /\ pc = "step"
    /\ opt_steps' = opt_steps + 1
    /\ grads' = "stale"
    /\ accum' = [accum EXCEPT !.loss_accum = RAdd(@, batch.loss.val)]
    /\ batch' = <<>>
    /\ pc' = "batch"
    /\ UNCHANGED <<cfg, kwargs, model, error, epoch, factors, enum_next, i_step,
                   loss_history, epoch_log, lfVars, clVars, genVars>>

\* cada_vae_train.py:96-106: the means over _i_step + 1, where _i_step is
\* whatever the last batch yielded so far left in it, and the append.
EpochEnd ==
    /\ pc = "epoch_end"
    /\ IF ~i_step.ok
       THEN /\ Fail("UnboundLocalError: _i_step")
            /\ UNCHANGED <<accum, loss_history, epoch>>
       ELSE LET n == R(i_step.v + 1)
                loss_accum_mean == PyDiv(accum.loss_accum, n).v
            IN  /\ accum' = [accum EXCEPT !.loss_vae_accum = PyDiv(@, n).v,
                                          !.loss_ca_accum = PyDiv(@, n).v,
                                          !.loss_da_accum = PyDiv(@, n).v]
                /\ loss_history' = Append(loss_history, loss_accum_mean)
                /\ epoch' = epoch + 1
                /\ pc' = "epoch"
                /\ error' = error
    /\ UNCHANGED <<cfg, kwargs, model, factors, enum_next, i_step, batch, opt_steps, grads,
                   epoch_log, lfVars, clVars, genVars>>

NextTrain ==
    \/ TrainBegin
    \/ EpochBegin
    \/ TrainReturn
    \/ BatchYield
    \/ BatchesExhausted
    \/ Forward
    \/ ForwardFails
    \/ ComputeLosses
    \/ ZeroGrad
    \/ Backward
    \/ BackwardFails
    \/ OptimizerStep
    \/ EpochEnd

SpecTrain == InitTrain /\ [][NextTrain]_vars

\* ------------------------------------------------------------------ eval_VAE

\* DataLoader(dataset, batch_size): the rows in order, batch_size at a time.
RECURSIVE DataLoader(_, _)
DataLoader(rows, batch_size) ==
    IF rows = <<>> THEN <<>>
    ELSE IF Len(rows) <= batch_size THEN <<rows>>
    ELSE <<SubSeq(rows, 1, batch_size)>>
             \o DataLoader(SubSeq(rows, batch_size + 1, Len(rows)), batch_size)

\* model.encoder[modality](x) for a batch x: per row the mean and the sample
\* (the log-variance is not used by eval_VAE).
Encoder(modality, xs) ==
    [z_mu |-> [i \in 1..Len(xs) |-> [encoder |-> modality, out |-> "z_mu", x |-> xs[i]]],
     z_noize |-> [i \in 1..Len(xs) |-> [encoder |-> modality, out |-> "z_noize", x |-> xs[i]]]]

\* Mutant: the two branches of the if are swapped.
RECURSIVE eval_VAE_swapped(_, _, _)
eval_VAE_swapped(test_loader, test_modality, reparametrize_with_noise) ==
    IF test_loader = <<>> THEN [zsl_emb |-> <<>>, labels |-> <<>>]
    ELSE LET last == test_loader[Len(test_loader)]
             x == [i \in 1..Len(last) |-> last[i].x]
             y == [i \in 1..Len(last) |-> last[i].y]
             enc == Encoder(test_modality, x)
             before == eval_VAE_swapped(SubSeq(test_loader, 1, Len(test_loader) - 1),
                                        test_modality, reparametrize_with_noise)
         IN  [zsl_emb |-> before.zsl_emb
                              \o (IF reparametrize_with_noise THEN enc.z_mu ELSE enc.z_noize),
              labels |-> before.labels \o y]

\* cada_vae_train.py:128-144: the embeddings and labels after the loop has
\* run over the batches of test_loader (line 126, model.eval(), is the state
\* change the callers below apply to the model).
RECURSIVE eval_VAE(_, _, _)
eval_VAE(test_loader, test_modality, reparametrize_with_noise) ==
    IF test_loader = <<>> THEN [zsl_emb |-> <<>>, labels |-> <<>>]
    ELSE LET last == test_loader[Len(test_loader)]
             x == [i \in 1..Len(last) |-> last[i].x]
             y == [i \in 1..Len(last) |-> last[i].y]
             enc == Encoder(test_modality, x)
             before == eval_VAE(SubSeq(test_loader, 1, Len(test_loader) - 1),
                                test_modality, reparametrize_with_noise)
         IN  [zsl_emb |-> before.zsl_emb
                              \o (IF reparametrize_with_noise THEN enc.z_noize ELSE enc.z_mu),
              labels |-> before.labels \o y]

\* ------------------------------------------------------------- remap_labels

\* dict(zip(classes, range(len(classes)))).get(label): the last position of the
\* label in classes, counted from 0, or None.
RemappingGet(classes, label) ==
    IF \E i \in 1..Len(classes) : classes[i] = label
    THEN (CHOOSE i \in 1..Len(classes) :
              /\ classes[i] = label
              /\ \A j \in 1..Len(classes) : classes[j] = label => j <= i) - 1
    ELSE -1

\* cada_vae_train.py:445-458. np.vectorize refuses an empty array and takes
\* the type of its output from the first result: after an int, a label that
\* is no class (its result is None, here -1) cannot be converted and the call
\* raises; after None the output is an array of objects that holds None.
remap_labels(labels, classes) ==
    IF labels = <<>> THEN Raise("ValueError: vectorize on size 0 inputs")
    ELSE LET out == [i \in 1..Len(labels) |-> RemappingGet(classes, labels[i])]
         IN  IF out[1] # -1 /\ \E i \in 1..Len(out) : out[i] = -1
             THEN Raise("TypeError: int() argument must be a real number, not NoneType")
             ELSE Ok(out)

\* ----------------------------------------------- generate_synthetic_dataset

\* np.arange(lo, hi)
Arange(lo, hi) == [i \in 1..(IF hi > lo THEN hi - lo ELSE 0) |-> lo + i - 1]

\* Mutant: n_train counts the seen-train labels only.
train_test_indices_seen_only(zsl_emb_labels_img, labels_cls_attr, zsl_emb_labels_test) ==
    LET n_train == Len(zsl_emb_labels_img)
    IN  [csl_train_indice |-> Arange(0, n_train),
         csl_test_indice |-> Arange(n_train, n_train + Len(zsl_emb_labels_test))]

\* cada_vae_train.py:435-438
train_test_indices(zsl_emb_labels_img, labels_cls_attr, zsl_emb_labels_test) ==
    LET n_train == Len(zsl_emb_labels_img) + Len(labels_cls_attr)
    IN  [csl_train_indice |-> Arange(0, n_train),
         csl_test_indice |-> Arange(n_train, n_train + Len(zsl_emb_labels_test))]

\* The unseen classes of the dataset (dataset.unseen_classes).
unseen_classes == <<7, 12, 19>>
seen_classes == <<3, 5>>

\* The rows GenEmbeddingDataset(cfg, split, modality) holds: row i carries the
\* features of instance i of the split and its class id. The unseen split
\* holds the attribute vector of one unseen class per row.
SplitRow(split, i) ==
    [x |-> [split |-> split, i |-> i],
     y |-> IF split = "trainval" THEN seen_classes[((i - 1) % Len(seen_classes)) + 1]
           ELSE unseen_classes[((i - 1) % Len(unseen_classes)) + 1]]
GenEmbeddingDataset(split, n) == [i \in 1..n |-> SplitRow(split, i)]

InitGen ==
    /\ gen_cfg \in [GENERALIZED : BOOLEAN, BATCH_SIZE : 1..MaxBatchSize]
    /\ \E a \in 0..MaxRows, b \in 0..MaxRows, c \in 0..MaxRows :
           gen_data = [trainval |-> GenEmbeddingDataset("trainval", a),
                       test_unseen |-> GenEmbeddingDataset("test_unseen", b),
                       test |-> GenEmbeddingDataset("test", c)]
    /\ gen_pc = "start"
    /\ gen_error = ""
    /\ gen_dataset = "unbound"
    /\ gen_locals = <<>>
    /\ gen_result = <<>>
    \* the model as train_VAE leaves it: every decoder trained in a pair is in
    \* eval mode, or (no batch was processed) everything is in training mode
    /\ \E d \in BOOLEAN :
           model = [modalities |-> Modalities,
                    encoder_training |-> [m \in Modalities |-> TRUE],
                    decoder_training |-> [m \in Modalities |-> d]]
    /\ cfg = <<>> /\ kwargs = <<>> /\ pc = "idle" /\ error = ""
    /\ epoch = 0 /\ factors = <<>> /\ enum_next = 0 /\ i_step = NotCalled /\ batch = <<>>
    /\ accum = <<>> /\ loss_history = <<>> /\ opt_steps = 0 /\ grads = "stale"
    /\ epoch_log = <<>>
    /\ IdleFactors /\ IdleLoss

trRest == <<cfg, kwargs, pc, error, epoch, factors, enum_next, i_step, batch, accum,
            loss_history, opt_steps, grads, epoch_log>>

ModelEval ==
    model' = [model EXCEPT !.encoder_training = [m \in model.modalities |-> FALSE],
                           !.decoder_training = [m \in model.modalities |-> FALSE]]

\* cada_vae_train.py:379-382
GenBegin ==
    /\ gen_pc = "start"
    /\ ModelEval
    /\ gen_pc' = "seen"
    /\ UNCHANGED <<gen_cfg, gen_data, gen_error, gen_dataset, gen_locals, gen_result,
                   trRest, lfVars, clVars>>

\* cada_vae_train.py:384-395: the seen-class training images, when generalized.
GenSeenTrain ==
    /\ gen_pc = "seen"
    /\ IF gen_cfg.GENERALIZED
       THEN LET r == eval_VAE(DataLoader(gen_data.trainval, gen_cfg.BATCH_SIZE), "IMG", TRUE)
            IN  /\ gen_dataset' = "trainval"
                /\ gen_locals' = [zsl_emb_img |-> r.zsl_emb, zsl_emb_labels_img |-> r.labels]
       ELSE /\ gen_dataset' = gen_dataset
            /\ gen_locals' = [zsl_emb_img |-> <<>>, zsl_emb_labels_img |-> <<>>]
    /\ ModelEval
    /\ gen_pc' = "unseen"
    /\ UNCHANGED <<gen_cfg, gen_data, gen_error, gen_result, trRest, lfVars, clVars>>

\* cada_vae_train.py:397-409: the unseen classes' attribute vectors. The
\* dataset is bound to zsl_emb_dataset; line 407 reads the local `dataset`.
GenUnseenAttr ==
    /\ gen_pc = "unseen"
    /\ ModelEval
    /\ LET r == eval_VAE(DataLoader(gen_data.test_unseen, gen_cfg.BATCH_SIZE), "CLS_ATTR", TRUE)
           keep(labels) ==
               gen_locals' = [zsl_emb_img |-> gen_locals.zsl_emb_img,
                              zsl_emb_labels_img |-> gen_locals.zsl_emb_labels_img,
                              zsl_emb_cls_attr |-> r.zsl_emb,
                              labels_cls_attr |-> labels]
           raise(e) == gen_pc' = "failed" /\ gen_error' = e /\ keep(r.labels)
       IN  IF ~gen_cfg.GENERALIZED
           THEN IF gen_dataset = "unbound"
                THEN raise("UnboundLocalError: dataset")
                ELSE LET m == remap_labels(r.labels, unseen_classes)
                     IN  IF ~m.ok THEN raise(m.err)
                         ELSE IF \E i \in 1..Len(m.v) : m.v[i] = -1
                         THEN raise("TypeError: from_numpy")
                         ELSE keep(m.v) /\ gen_pc' = "test" /\ gen_error' = gen_error
           ELSE keep(r.labels) /\ gen_pc' = "test" /\ gen_error' = gen_error
    /\ UNCHANGED <<gen_cfg, gen_data, gen_dataset, gen_result, trRest, lfVars, clVars>>

\* cada_vae_train.py:411-422: the test images, encoded by the latent mean.
GenTest ==
    /\ gen_pc = "test"
    /\ ModelEval
    /\ gen_dataset' = "test"
    /\ LET r == eval_VAE(DataLoader(gen_data.test, gen_cfg.BATCH_SIZE), "IMG", FALSE)
       IN  gen_locals' = [zsl_emb_img |-> gen_locals.zsl_emb_img,
                          zsl_emb_labels_img |-> gen_locals.zsl_emb_labels_img,
                          zsl_emb_cls_attr |-> gen_locals.zsl_emb_cls_attr,
                          labels_cls_attr |-> gen_locals.labels_cls_attr,
                          zsl_emb_test |-> r.zsl_emb,
                          zsl_emb_labels_test |-> r.labels]
    /\ gen_pc' = "assemble"
    /\ UNCHANGED <<gen_cfg, gen_data, gen_error, gen_result, trRest, lfVars, clVars>>

\* cada_vae_train.py:424-442: the concatenation, the index arrays, the return.
GenAssemble ==
    /\ gen_pc = "assemble"
    /\ LET idx == train_test_indices(gen_locals.zsl_emb_labels_img, gen_locals.labels_cls_attr,
                                     gen_locals.zsl_emb_labels_test)
       IN  gen_result' =
               [zsl_emb |-> gen_locals.zsl_emb_img \o gen_locals.zsl_emb_cls_attr
                                \o gen_locals.zsl_emb_test,
                labels_tensor |-> gen_locals.zsl_emb_labels_img \o gen_locals.labels_cls_attr
                                      \o gen_locals.zsl_emb_labels_test,
                csl_train_indice |-> idx.csl_train_indice,
                csl_test_indice |-> idx.csl_test_indice]
    /\ gen_pc' = "done"
    /\ UNCHANGED <<gen_cfg, gen_data, gen_error, gen_dataset, gen_locals, model, trRest,
                   lfVars, clVars>>

NextGen ==
    \/ GenBegin
    \/ GenSeenTrain
    \/ GenUnseenAttr
    \/ GenTest
    \/ GenAssemble

SpecGen == InitGen /\ [][NextGen]_vars

\* ---------------------------------------------------- claims on train_VAE

\* The factors loss_factors returns for the current epoch.
EpochFactors == loss_factors(epoch, cfg.WARMUP).v

\* The three losses compute_cada_losses returned for the batch in hand.
ReturnedLosses ==
    compute_cada_losses(batch.decoder, batch.x, batch.x_recon, batch.z_mu, batch.z_logvar,
                        batch.z_noize, factors.beta, kwargs.recon_loss_norm).v

\* The combined loss as the specification words it.
ExpectedLoss(losses, f) ==
    LET ca_term == IF cfg.CROSS_RECONSTRUCTION
                   THEN RMul(f.cross_reconstruction_factor, losses.loss_ca.val) ELSE R(0)
        da_term == IF cfg.DISTRIBUTION_ALLIGNMENT /\ RLt(R(0), f.distance_factor)
                   THEN RMul(f.distance_factor, losses.loss_da.val) ELSE R(0)
    IN  RAdd(RAdd(losses.loss_vae.val, ca_term), da_term)

\* C1: the loss given to backward() for a batch is the VAE loss, plus
\* cross_reconstruction_factor times the cross-alignment loss when
\* cross-reconstruction is enabled, plus distance_factor times the
\* distribution-alignment loss when alignment is enabled and distance_factor
\* is positive, with the factors of the current epoch.
C1_BackpropagatedLoss ==
    pc = "step" =>
        \A r \in {ReturnedLosses} : \A f \in {EpochFactors} :
            batch.backpropagated = ExpectedLoss(r, f)

\* A batch has been backpropagated in an epoch where both factors are positive
\* and both pair losses are positive, with cross-reconstruction enabled and
\* alignment disabled: one term is added, the other is left out.
C1_Witness ==
    /\ pc = "step"
    /\ cfg.CROSS_RECONSTRUCTION /\ ~cfg.DISTRIBUTION_ALLIGNMENT
    /\ RLt(R(0), factors.cross_reconstruction_factor)
    /\ RLt(factors.cross_reconstruction_factor, R(1))
    /\ RLt(R(0), factors.distance_factor)
    /\ RLt(R(0), batch.losses.loss_ca.val)
    /\ RLt(R(0), batch.losses.loss_da.val)
    /\ batch.backpropagated # ReturnedLosses.loss_vae.val
    /\ batch.losses.loss_vae.val = batch.backpropagated

UnknownNorm == kwargs.recon_loss_norm \notin {"l1", "l2"}
Terminated == pc \in {"done", "failed"}

\* C7 as stated: train_VAE called with a selector other than "l1" and "l2"
\* terminates with the error reconstruction_loss raises, before any optimizer
\* step.
C7_UnknownNormEndsInItsError ==
    (pc # "idle" /\ UnknownNorm /\ Terminated) =>
        /\ pc = "failed"
        /\ error = "UnboundLocalError: loss_recon"
        /\ opt_steps = 0

\* C7 amended: with such a selector reconstruction_loss never returns a value
\* (its return statement raises), so train_VAE never gets past the loss
\* computation of its first batch and never makes an optimizer step; a loss
\* computation over at least one modality ends train_VAE with that error. A
\* run that never calls reconstruction_loss does not: with no epoch it returns
\* the empty history, otherwise it ends in another error.
C7_UnknownNormNeverSteps ==
    (pc # "idle" /\ UnknownNorm) =>
        /\ opt_steps = 0
        /\ pc \notin {"zero_grad", "backward", "step"}
        /\ Len(loss_history) = 0
        /\ pc = "done" => cfg.EPOCH = 0
        /\ (pc = "failed" /\ error \notin {"forward", "UnboundLocalError: _i_step"}) =>
               IF model.modalities = {} THEN error = "AttributeError: item"
               ELSE error = "UnboundLocalError: loss_recon"
        /\ (pc = "failed" /\ error = "UnboundLocalError: _i_step") =>
               epoch_log[1].yielded = 0

\* The first batch of a run with an unknown selector and both modalities has
\* ended train_VAE in reconstruction_loss's error.
C7_Witness ==
    /\ pc = "failed"
    /\ UnknownNorm
    /\ model.modalities = Modalities
    /\ error = "UnboundLocalError: loss_recon"
    /\ epoch_log[1].yielded = 1
    /\ opt_steps = 0

\* C10: when train_VAE returns, loss_history has cfg.ZSL.EPOCH entries and the
\* k-th is the sum of the losses backpropagated in epoch k divided by the
\* number of batches the loader yielded in epoch k.
C10_HistoryIsEpochMean ==
    pc = "done" =>
        /\ Len(loss_history) = cfg.EPOCH
        /\ \A k \in 1..Len(loss_history) :
               /\ epoch_log[k].yielded > 0
               /\ loss_history[k] = Rat(epoch_log[k].backward_sum.n,
                                        epoch_log[k].backward_sum.d * epoch_log[k].yielded)

\* --------------------------------- claims on generate_synthetic_dataset

Range(f) == {f[i] : i \in DOMAIN f}
Contiguous(idx) == \A i \in 1..(Len(idx) - 1) : idx[i + 1] = idx[i] + 1

\* The rows of the three sources, in the concatenation order.
SeenTrainRows == IF gen_cfg.GENERALIZED THEN gen_data.trainval ELSE <<>>
SourceRows == SeenTrainRows \o gen_data.test_unseen \o gen_data.test

\* C3: in every returned dataset the train and test index ranges are
\* contiguous and disjoint, cover every row of the embedding tensor and of
\* the label tensor exactly once, every train index is below every test
\* index, the train range holds exactly the seen-train and unseen-attribute
\* rows and the test range exactly the test rows, in the concatenation order.
C3_IndexRangesPartitionRows ==
    gen_pc = "done" =>
        LET tr == gen_result.csl_train_indice
            te == gen_result.csl_test_indice
            emb == gen_result.zsl_emb
        IN  /\ Len(tr) + Len(te) = Len(emb)
            /\ Len(tr) + Len(te) = Len(gen_result.labels_tensor)
            /\ Contiguous(tr) /\ Contiguous(te)
            /\ Range(tr) \cap Range(te) = {}
            /\ Range(tr) \cup Range(te) = 0..(Len(emb) - 1)
            /\ \A i \in 1..Len(tr) : \A j \in 1..Len(te) : tr[i] < te[j]
            /\ Len(emb) = Len(SourceRows)
            /\ \A k \in 1..Len(emb) : emb[k].x = SourceRows[k].x
            /\ \A i \in 1..Len(tr) : emb[tr[i] + 1].x.split \in {"trainval", "test_unseen"}
            /\ \A j \in 1..Len(te) : emb[te[j] + 1].x.split = "test"

\* A dataset has been returned whose three sources are all non-empty.
C3_Witness ==
    /\ gen_pc = "done"
    /\ Len(gen_data.trainval) >= 2
    /\ Len(gen_data.test_unseen) >= 1
    /\ Len(gen_data.test) >= 1
    /\ Len(gen_result.csl_train_indice) >= 3
    /\ Len(gen_result.csl_test_indice) >= 1

\* C4: a run with generalized = False completes; its seen-train source is
\* empty and the labels of the unseen-attribute rows are the positions of
\* their class ids in the unseen-class list, in row order.
C4_UngeneralizedRunRemaps ==
    (gen_pc \in {"done", "failed"} /\ ~gen_cfg.GENERALIZED) =>
        /\ gen_pc = "done"
        /\ gen_locals.zsl_emb_img = <<>>
        /\ Len(gen_locals.labels_cls_attr) = Len(gen_data.test_unseen)
        /\ \A i \in 1..Len(gen_data.test_unseen) :
               /\ gen_locals.labels_cls_attr[i] \in 0..(Len(unseen_classes) - 1)
               /\ unseen_classes[gen_locals.labels_cls_attr[i] + 1] = gen_data.test_unseen[i].y
               /\ gen_result.labels_tensor[i] = gen_locals.labels_cls_attr[i]

\* What eval_VAE must return for the rows of one source.
EvalOutputIs(emb, labels, rows, out) ==
    /\ Len(emb) = Len(rows)
    /\ Len(labels) = Len(rows)
    /\ \A i \in 1..Len(rows) :
           /\ emb[i].out = out
           /\ emb[i].x = rows[i].x
           /\ labels[i] = rows[i].y

\* C9: only the test source is encoded by the latent mean; the seen-train
\* and the unseen-attribute sources are encoded by the noisy sample; every
\* call of eval_VAE returns one embedding row and one label per input row, in
\* batch order.
C9_OnlyTestUsesMean ==
    /\ (gen_pc \in {"unseen", "test", "assemble", "done"} /\ gen_cfg.GENERALIZED) =>
           EvalOutputIs(gen_locals.zsl_emb_img, gen_locals.zsl_emb_labels_img,
                        gen_data.trainval, "z_noize")
    /\ (gen_pc \in {"test", "assemble", "done"}) =>
           EvalOutputIs(gen_locals.zsl_emb_cls_attr, gen_locals.labels_cls_attr,
                        gen_data.test_unseen, "z_noize")
    /\ (gen_pc \in {"assemble", "done"}) =>
           EvalOutputIs(gen_locals.zsl_emb_test, gen_locals.zsl_emb_labels_test,
                        gen_data.test, "z_mu")
    /\ gen_pc = "done" =>
           \A k \in 1..Len(gen_result.zsl_emb) :
               gen_result.zsl_emb[k].out = "z_mu" <=> gen_result.zsl_emb[k].x.split = "test"

\* A dataset has been returned that holds rows of the image encoder of both
\* kinds, each source having been read in more than one batch.
C9_Witness ==
    /\ gen_pc = "done"
    /\ gen_cfg.BATCH_SIZE < Len(gen_data.trainval)
    /\ gen_cfg.BATCH_SIZE < Len(gen_data.test)
    /\ \E k \in 1..Len(gen_result.zsl_emb) :
           gen_result.zsl_emb[k] = [encoder |-> "IMG", out |-> "z_mu",
                                    x |-> [split |-> "test", i |-> 2]]
    /\ \E k \in 1..Len(gen_result.zsl_emb) :
           gen_result.zsl_emb[k] = [encoder |-> "IMG", out |-> "z_noize",
                                    x |-> [split |-> "trainval", i |-> 2]]

\* ------------------------------------------- claims on the batch sequence

\* The batches the loader has yielded so far, over all epochs.
TotalYielded == SumInts([k \in 1..Len(epoch_log) |-> epoch_log[k].yielded])

\* train_VAE is inside the body of the batch loop.
InBatch == pc \in {"forward", "losses", "zero_grad", "backward", "step"}

\* train_VAE has ended in an exception raised inside the body of the batch loop.
FailedInBatch == pc = "failed" /\ error # "UnboundLocalError: _i_step"

\* The optimizer has stepped once for every batch whose body has completed.
StepsCountCompletedBatches ==
    pc # "idle" =>
        /\ opt_steps = TotalYielded - (IF InBatch \/ FailedInBatch THEN 1 ELSE 0)
        /\ pc = "backward" => grads = "zero"
        /\ pc = "step" => grads = "fresh"
        /\ pc = "done" => opt_steps = TotalYielded

\* One step of train_VAE keeps the order of the loop body.
BatchSequenceStep ==
    /\ TotalYielded' # TotalYielded =>
           /\ pc = "batch" /\ pc' = "forward"
           /\ TotalYielded' = TotalYielded + 1
    /\ pc = "forward" => pc' \in {"losses", "failed"}
    /\ pc = "losses" => pc' \in {"zero_grad", "failed"}
    /\ pc = "zero_grad" => pc' = "backward"
    /\ pc = "backward" => pc' \in {"step", "failed"}
    /\ pc = "step" => pc' = "batch" /\ opt_steps' = opt_steps + 1
    /\ pc' = "forward" => pc = "batch"
    /\ opt_steps' # opt_steps => pc = "step"
    /\ pc' = "failed" => opt_steps' = opt_steps
    /\ pc \notin {"failed", "done"}

\* C11: every batch the loader yields goes once through forward pass, loss
\* computation, zero_grad, backward and optimizer step, in that order; the
\* optimizer steps only at the end of that sequence, so a run that returns has
\* made as many optimizer steps as batches were yielded; a failure of a step
\* of the sequence ends train_VAE at once, with no retry and no further
\* optimizer step.
C11_BatchSequenceInOrder ==
    /\ []StepsCountCompletedBatches
    /\ [][BatchSequenceStep]_vars

\* A run has returned after two epochs of different lengths, three batches in
\* all, each followed by its optimizer step.
C11_Witness ==
    /\ pc = "done"
    /\ Len(epoch_log) = 2
    /\ epoch_log[1].yielded = 2
    /\ epoch_log[2].yielded = 1
    /\ opt_steps = 3

\* --------------------------------------- claims on the modes of the model

Running == pc \notin {"idle", "start"}

\* The loss computation of some batch has returned: every later point of the
\* run is after the end of the first call of compute_ca_loss on each pair.
FirstLossesComputed ==
    \/ opt_steps >= 1
    \/ pc \in {"zero_grad", "backward", "step"}
    \/ (pc = "failed" /\ error = "backward")

\* The modalities that belong to some pair.
Paired == IF Cardinality(model.modalities) >= 2 THEN model.modalities ELSE {}

ModesDuringTraining ==
    Running =>
        /\ \A m \in model.modalities : model.encoder_training[m]
        /\ FirstLossesComputed => \A m \in Paired : ~model.decoder_training[m]
        /\ (pc = "forward" /\ opt_steps >= 1) => \A m \in Paired : ~model.decoder_training[m]
        /\ Cardinality(model.modalities) < 2 => \A m \in model.modalities : model.decoder_training[m]

\* One step of train_VAE: only the call of model.train() before the first
\* epoch puts a module in training mode, and only the loss computation takes
\* one out of it.
ModesStep ==
    /\ model.modalities' = model.modalities
    /\ \A m \in model.modalities :
           /\ (~model.decoder_training[m] /\ model.decoder_training'[m]) => pc = "start"
           /\ (~model.encoder_training[m] /\ model.encoder_training'[m]) => pc = "start"
           /\ (model.decoder_training[m] /\ ~model.decoder_training'[m]) =>
                  pc = "losses" /\ m \in Paired
           /\ model.encoder_training[m] => model.encoder_training'[m]

\* C12: train_VAE puts the model in training mode once, before the first
\* epoch; compute_ca_loss puts the decoders of every pair in inference mode on
\* every batch, whatever cfg.CADA_VAE.CROSS_RECONSTRUCTION says, and nothing
\* puts them back: with two or more modalities every decoder is in inference
\* mode from the end of the first batch's loss computation to the return, the
\* forward pass of every later batch included, and the encoders stay in
\* training mode.
C12_DecodersStayInInference ==
    /\ []ModesDuringTraining
    /\ [][ModesStep]_vars

\* The forward pass of a second batch is about to run, in a run with both
\* modalities and cross-reconstruction disabled: the decoders are in
\* inference mode, the encoders in training mode.
C12_Witness ==
    /\ pc = "forward"
    /\ opt_steps >= 1
    /\ ~cfg.CROSS_RECONSTRUCTION
    /\ model.modalities = Modalities
    /\ \A m \in Modalities : ~model.decoder_training[m] /\ model.encoder_training[m]

====
